---- MODULE Spec2Model ----
(***************************************************************************)
(* Model of src/main.py (Market Sniper V4): the per-ticker indicator       *)
(* pipeline, the risk classification, the HYG/LQD ratio and the history    *)
(* table market_history.csv that each run loads, extends and rewrites.     *)
(*                                                                         *)
(* Numbers.  A float is modelled exactly as a pair <<n, d>>: the rational  *)
(* n/d in lowest terms with d > 0, or, with d = 0, one of the IEEE         *)
(* specials NaN = <<0,0>>, +inf = <<1,0>>, -inf = <<-1,0>>.  Prices are    *)
(* numpy.float64 values, so a division by zero yields inf or NaN and       *)
(* raises nothing.  Rounding error is not modelled.                        *)
(*                                                                         *)
(* A z-score is in general irrational (it divides by a square root), so    *)
(* it is kept as <<s, p, q>>: the number s * sqrt(p/q) with s its sign,    *)
(* p/q in lowest terms, and q = 0 for NaN.                                 *)
(*                                                                         *)
(* Timestamps ('%Y-%m-%d %H:%M' strings, whose lexicographic order is      *)
(* their chronological order) are modelled as minute numbers.              *)
(***************************************************************************)
EXTENDS Integers, Sequences, FiniteSets, TLC

\* ------------------------------------------------------------------ bounds
\* Longest price series the Provider returns in the calculator runs.
MaxLen == 7
\* Largest closing price in the calculator runs (prices are 0..MaxPrice).
MaxPrice == 3
\* Number of runs (process invocations) of the engine.
MaxRuns == 2
\* Longest series that the calculator runs also try after a flat stretch.
MaxTail == 4

\* --------------------------------------------------------- float arithmetic
NaN == <<0, 0>>

Sign(n) == IF n > 0 THEN 1 ELSE IF n < 0 THEN -1 ELSE 0

Abs(n) == IF n < 0 THEN -n ELSE n

RECURSIVE GCD(_, _)
GCD(a, b) == IF b = 0 THEN a ELSE GCD(b, a % b)

\* The float n/d for integers n, d with d # 0.
Rat(n, d) ==
    LET g == GCD(Abs(n), Abs(d))
    IN  <<(Sign(d) * n) \div g, Abs(d) \div g>>

\* The float of an integer.
Num(n) == <<n, 1>>

IsNaN(a) == a[1] = 0 /\ a[2] = 0

IsInf(a) == a[1] # 0 /\ a[2] = 0

IsFinite(a) == a[2] # 0

\* a + b
FAdd(a, b) ==
    IF IsNaN(a) \/ IsNaN(b) THEN NaN
    ELSE IF IsInf(a) /\ IsInf(b) THEN (IF a[1] = b[1] THEN a ELSE NaN)
    ELSE IF IsInf(a) THEN a
    ELSE IF IsInf(b) THEN b
    ELSE Rat(a[1] * b[2] + b[1] * a[2], a[2] * b[2])

FNeg(a) == <<-a[1], a[2]>>

\* a - b
FSub(a, b) == FAdd(a, FNeg(b))

\* a * b
FMul(a, b) ==
    IF IsNaN(a) \/ IsNaN(b) THEN NaN
    ELSE IF IsInf(a) \/ IsInf(b)
         THEN (IF a[1] = 0 \/ b[1] = 0 THEN NaN ELSE <<Sign(a[1]) * Sign(b[1]), 0>>)
    ELSE Rat(a[1] * b[1], a[2] * b[2])

\* a / b on numpy floats: x/0 is +-inf, 0/0 is NaN, nothing is raised.
FDiv(a, b) ==
    IF IsNaN(a) \/ IsNaN(b) THEN NaN
    ELSE IF IsInf(b) THEN (IF IsInf(a) THEN NaN ELSE Num(0))
    ELSE IF IsInf(a) THEN <<a[1] * (IF b[1] < 0 THEN -1 ELSE 1), 0>>
    ELSE IF b[1] = 0 THEN <<Sign(a[1]), 0>>
    ELSE Rat(a[1] * b[2], a[2] * b[1])

\* ------------------------------------------------------------ series helpers
RECURSIVE SumSeq(_)
SumSeq(s) == IF s = <<>> THEN 0 ELSE Head(s) + SumSeq(Tail(s))

RECURSIVE SumSq(_)
SumSq(s) == IF s = <<>> THEN 0 ELSE Head(s) * Head(s) + SumSq(Tail(s))

RECURSIVE MaxSeq(_)
MaxSeq(s) ==
    IF Len(s) = 1 THEN s[1]
    ELSE LET m == MaxSeq(Tail(s)) IN IF Head(s) > m THEN Head(s) ELSE m

\* Series.tail(n): the last n elements, or all of them when there are fewer.
TailN(s, n) == IF Len(s) <= n THEN s ELSE SubSeq(s, Len(s) - n + 1, Len(s))

\* ------------------------------------------------------ Indicator Calculator
\* calculate_rsi's default period.
RsiPeriod == 14
\* Bars of the drawdown window (df['Close'].tail(63)).
DrawdownWindow == 63
\* abs(z_score) > 1.5 and abs(z_score) > 2.0, in tenths.
ZCaution10 == 15
ZDanger10 == 20

\* delta.where(delta > 0, 0) and -delta.where(delta < 0, 0) of series.diff():
\* the first delta is NaN, which both where() calls replace by 0.
Gains(s) == [i \in 1..Len(s) |->
               IF i > 1 /\ s[i] - s[i-1] > 0 THEN s[i] - s[i-1] ELSE 0]

Losses(s) == [i \in 1..Len(s) |->
               IF i > 1 /\ s[i] - s[i-1] < 0 THEN s[i-1] - s[i] ELSE 0]

\* The last value of v.rolling(window=period).mean(): NaN until the window is full.
RollingMeanLast(v, period) ==
    IF Len(v) < period THEN NaN ELSE Rat(SumSeq(TailN(v, period)), period)

\* calculate_rsi(series).iloc[-1]
calculate_rsi(s) ==
    LET gain == RollingMeanLast(Gains(s), RsiPeriod)
        loss == RollingMeanLast(Losses(s), RsiPeriod)
        rs   == FDiv(gain, loss)
    IN  FSub(Num(100), FDiv(Num(100), FAdd(Num(1), rs)))

\* df['Close'].mean()
Mean(s) == Rat(SumSeq(s), Len(s))

\* The square of df['Close'].std(): the sample variance (ddof = 1), NaN for a
\* single point (0/0).
Variance(s) ==
    LET n == Len(s)
    IN  FDiv(Rat(n * SumSq(s) - SumSeq(s) * SumSeq(s), n), Num(n - 1))

ZNaN == <<0, 0, 0>>

ZZero == <<0, 0, 1>>

\* z_score: (current - mean) / std when std != 0 (which holds of a NaN std
\* too), else 0.
ZScore(s) ==
    LET dev == FSub(Num(s[Len(s)]), Mean(s))
        var == Variance(s)
        sq  == FDiv(FMul(dev, dev), var)
    IN  IF var # Num(0)
        THEN (IF IsNaN(sq) THEN ZNaN ELSE <<Sign(dev[1]), sq[1], sq[2]>>)
        ELSE ZZero

\* abs(z) > t10/10; False for a NaN z.
ZAbsGreater(z, t10) == z[3] # 0 /\ z[2] * 100 > t10 * t10 * z[3]

\* Risk with both tests made inclusive (>= for >).
Risk_Inclusive(z) ==
    LET ge(t10) == z[3] # 0 /\ z[2] * 100 >= t10 * t10 * z[3]
    IN  IF ge(ZDanger10) THEN <<"Danger", "red">>
        ELSE IF ge(ZCaution10) THEN <<"Caution", "#ffcc00">>
        ELSE <<"Normal", "green">>

\* risk, color: starts as Normal/green ("tsujo"), then the two tests in turn
\* overwrite it with Caution/#ffcc00 ("chui") and Danger/red ("kiken").
Risk(z) ==
    LET r0 == <<"Normal", "green">>
        r1 == IF ZAbsGreater(z, ZCaution10) THEN <<"Caution", "#ffcc00">> ELSE r0
    IN  IF ZAbsGreater(z, ZDanger10) THEN <<"Danger", "red">> ELSE r1

\* ((current - high_3m) / high_3m) * 100
Drawdown(s) ==
    LET high_3m == MaxSeq(TailN(s, DrawdownWindow))
    IN  FMul(FDiv(FSub(Num(s[Len(s)]), Num(high_3m)), Num(high_3m)), Num(100))

\* The dict appended to results_list for a non-empty frame (prob, a display
\* value norm.cdf(abs(z)) * 100, is left out: nothing reads it but the report).
Indicators(name, s) ==
    LET current == s[Len(s)]
        change  == IF Len(s) > 1 THEN current - s[Len(s) - 1] ELSE 0
        pct     == IF Len(s) > 1
                   THEN FMul(FDiv(Num(change), Num(s[Len(s) - 1])), Num(100))
                   ELSE Num(0)
        z       == ZScore(s)
    IN  [name |-> name, price |-> Num(current), change |-> Num(change), pct |-> pct,
         z |-> z, risk |-> Risk(z)[1], color |-> Risk(z)[2],
         rsi |-> calculate_rsi(s), drawdown |-> Drawdown(s)]

\* ------------------------------------------------------------- History Store
\* A DataFrame is a sequence of rows [Date, cells], cells a function from the
\* frame's columns to floats; every row of a frame has the same columns.
EmptyCells == [c \in {} |-> NaN]

\* pd.DataFrame()
EmptyFrame == <<>>

Columns(frame) == IF frame = <<>> THEN {} ELSE DOMAIN frame[1].cells

Reindex(row, cols) ==
    [Date |-> row.Date,
     cells |-> [c \in cols |-> IF c \in DOMAIN row.cells THEN row.cells[c] ELSE NaN]]

\* Concat that drops the rows of a (the table is replaced, not extended).
Concat_OnlyNew(a, b) == b

\* pd.concat([a, b]): the rows of a then those of b, over the union of the
\* columns, a missing cell being NaN.
Concat(a, b) ==
    LET cols == Columns(a) \cup Columns(b)
    IN  [i \in 1..(Len(a) + Len(b)) |->
           Reindex(IF i <= Len(a) THEN a[i] ELSE b[i - Len(a)], cols)]

\* Dropping duplicates with keep='first': a row stays unless an earlier row
\* has its Date.
DropDuplicatedKeepFirst(frame) ==
    LET keep == {i \in 1..Len(frame) :
                   \A j \in 1..(i - 1) : frame[j].Date # frame[i].Date}
        RECURSIVE pick(_)
        pick(i) == IF i > Len(frame) THEN <<>>
                   ELSE (IF i \in keep THEN <<frame[i]>> ELSE <<>>) \o pick(i + 1)
    IN  pick(1)

\* frame[~frame.index.duplicated(keep='last')]: a row stays unless a later row
\* has its Date.
RECURSIVE DropDuplicatedKeepLast(_)
DropDuplicatedKeepLast(frame) ==
    IF frame = <<>> THEN <<>>
    ELSE IF \E j \in 2..Len(frame) : frame[j].Date = frame[1].Date
         THEN DropDuplicatedKeepLast(Tail(frame))
         ELSE <<frame[1]>> \o DropDuplicatedKeepLast(Tail(frame))

\* The file market_history.csv: absent, readable with the rows to_csv wrote,
\* or unreadable (read_csv raises: an empty or damaged file).
NoFile == [state |-> "absent", rows |-> <<>>]

Unreadable == [state |-> "unreadable", rows |-> <<>>]

Written(frame) == [state |-> "ok", rows |-> frame]

\* The history load: os.path.exists, then read_csv(index_col=0) under a bare
\* except that falls back to an empty frame.
LoadHistory(f) == IF f.state = "ok" THEN f.rows ELSE EmptyFrame

\* history_df.tail(30)
ChartWindow == 30

\* ------------------------------------------------------------- Signal Engine
\* The watchlist, in dict order. The model watches two consecutive entries of
\* the ten, the two the ratio reads; the loop treats every entry alike.
tickers == <<"HYG", "LQD">>

\* 'HYG' in x['name']: of the watchlist's names only the one starts with it.
NameHas(name, sub) == name = sub

\* next((x for x in results_list if sub in x['name']), None), as a sequence
\* of at most one element.
FirstWith(results, sub) ==
    LET hits == {i \in 1..Len(results) : NameHas(results[i].name, sub)}
    IN  IF hits = {} THEN <<>>
        ELSE <<results[CHOOSE i \in hits : \A j \in hits : i <= j]>>

\* Ratio with the division the other way round.
Ratio_Inverted(results) ==
    LET hyg == FirstWith(results, "HYG")
        lqd == FirstWith(results, "LQD")
    IN  IF hyg # <<>> /\ lqd # <<>> /\ lqd[1].price # Num(0)
        THEN FDiv(lqd[1].price, hyg[1].price)
        ELSE Num(0)

\* hyg['price'] / lqd['price'] if (hyg and lqd and lqd['price'] != 0) else 0
Ratio(results) ==
    LET hyg == FirstWith(results, "HYG")
        lqd == FirstWith(results, "LQD")
    IN  IF hyg # <<>> /\ lqd # <<>> /\ lqd[1].price # Num(0)
        THEN FDiv(hyg[1].price, lqd[1].price)
        ELSE Num(0)

VARIABLES
    pc,            \* where the script is: load, fetch, ratio, save, chart, report, done, crashed
    run,           \* which invocation of the script this is
    clock,         \* the wall clock, in minutes
    file,          \* market_history.csv
    file_at_load,  \* market_history.csv as the history load of this run found it
    history_df,
    timestamp,
    new_row,       \* [Date, cells]: the dict new_row
    results_list,
    idx,           \* position of the for loop in tickers
    df,            \* the frame of the last Provider call, as its Close series
    outcome,       \* per name: pending, empty, raised or ok (what the Provider did)
    ratio_val,
    written,       \* what to_csv did in this run: none, ok, fail_open, fail_write
    saves,         \* how often the history save block ran in this run
    chart_data,
    printed,       \* the messages this run printed
    reports        \* whether this run wrote report_light.html and report_dark.html

vars == <<pc, run, clock, file, file_at_load, history_df, timestamp, new_row, results_list, idx,
          df, outcome, ratio_val, written, saves, chart_data, printed, reports>>

Names == {tickers[i] : i \in 1..Len(tickers)}

\* The series the Provider returns in the engine runs: one bar, closing at
\* zero or at one of two other prices.
RunSeries == {<<0>>, <<1>>, <<2>>}

\* A table earlier runs left behind: m snapshots at minutes 1..m, taken while
\* every Provider call failed (the ratio column only, at 0).
EarlierTable(m) ==
    [i \in 1..m |-> [Date |-> i, cells |-> ("HYG/LQD" :> Num(0))]]

\* The script's globals before its first statement.
Fresh ==
    /\ pc = "load"
    /\ file_at_load = NoFile
    /\ history_df = EmptyFrame
    /\ timestamp = 0
    /\ new_row = [Date |-> 0, cells |-> EmptyCells]
    /\ results_list = <<>>
    /\ idx = 1
    /\ df = <<>>
    /\ outcome = [n \in Names |-> "pending"]
    /\ ratio_val = NaN
    /\ written = "none"
    /\ saves = 0
    /\ chart_data = <<>>
    /\ printed = {}
    /\ reports = FALSE

Init ==
    /\ Fresh
    /\ run = 1
    /\ \E m \in {0, ChartWindow - 1} :
          /\ clock = m
          /\ file \in (IF m = 0 THEN {NoFile, Unreadable} ELSE {Written(EarlierTable(m))})

\* Lines 33-48: load the history, take the timestamp (the clock's minute, which
\* is that of the previous run or a later one), start new_row and results_list.
Load ==
    /\ pc = "load"
    /\ history_df' = LoadHistory(file)
    /\ file_at_load' = file
    /\ \E now \in {clock, clock + 1} :
          /\ clock' = now
          /\ timestamp' = now
          /\ new_row' = [Date |-> now, cells |-> EmptyCells]
    /\ results_list' = <<>>
    /\ pc' = "fetch"
    /\ UNCHANGED <<run, file, idx, df, outcome, ratio_val, written, saves,
                   chart_data, printed, reports>>

\* The loop left after its first ticker.
AfterTicker_Early == "ratio"

\* Where the loop goes after the ticker at idx.
AfterTicker == IF idx = Len(tickers) THEN "ratio" ELSE "fetch"

\* Lines 50-56: the Provider returns an empty frame; the ticker is skipped.
FetchEmpty ==
    /\ pc = "fetch"
    /\ df' = <<>>
    /\ outcome' = [outcome EXCEPT ![tickers[idx]] = "empty"]
    /\ printed' = printed \cup {"Skip (No Data)"}
    /\ idx' = idx + 1
    /\ pc' = AfterTicker
    /\ UNCHANGED <<run, clock, file, file_at_load, history_df, timestamp, new_row, results_list,
                   ratio_val, written, saves, chart_data, reports>>

\* The Provider call raises and nothing catches it.
FetchRaises_Uncaught ==
    /\ pc = "fetch"
    /\ outcome' = [outcome EXCEPT ![tickers[idx]] = "raised"]
    /\ pc' = "crashed"
    /\ UNCHANGED <<run, clock, file, file_at_load, history_df, timestamp, new_row,
                   results_list, idx, df, ratio_val, written, saves, chart_data,
                   printed, reports>>

\* Lines 51-53, 97-98: the Provider call raises; the except prints and the loop
\* goes on.
FetchRaises ==
    /\ pc = "fetch"
    /\ outcome' = [outcome EXCEPT ![tickers[idx]] = "raised"]
    /\ printed' = printed \cup {"Error processing"}
    /\ idx' = idx + 1
    /\ pc' = AfterTicker
    /\ UNCHANGED <<run, clock, file, file_at_load, history_df, timestamp, new_row, results_list,
                   df, ratio_val, written, saves, chart_data, reports>>

\* results_list and new_row after the pipeline of lines 58-95 ran on series s.
Appended(results, name, s) == Append(results, Indicators(name, s))

Recorded(row, name, s) ==
    [row EXCEPT !.cells = (name :> Num(s[Len(s)])) @@ row.cells]

\* Lines 50-95: the Provider returns bars, one of the series in pool; the
\* indicators are computed, the result appended and the price put into new_row.
FetchBars(pool) ==
    /\ pc = "fetch"
    /\ \E s \in pool :
          /\ df' = s
          /\ results_list' = Appended(results_list, tickers[idx], s)
          /\ new_row' = Recorded(new_row, tickers[idx], s)
    /\ outcome' = [outcome EXCEPT ![tickers[idx]] = "ok"]
    /\ idx' = idx + 1
    /\ pc' = AfterTicker
    /\ UNCHANGED <<run, clock, file, file_at_load, history_df, timestamp, ratio_val, written,
                   saves, chart_data, printed, reports>>

FetchOk == FetchBars(RunSeries)

\* Lines 100-104.
ComputeRatio ==
    /\ pc = "ratio"
    /\ ratio_val' = Ratio(results_list)
    /\ new_row' = [new_row EXCEPT !.cells = ("HYG/LQD" :> Ratio(results_list)) @@ new_row.cells]
    /\ pc' = "save"
    /\ UNCHANGED <<run, clock, file, file_at_load, history_df, timestamp, results_list, idx, df,
                   outcome, written, saves, chart_data, printed, reports>>

\* The merge without the concat: the new row never enters the table.
Merged_Forgets(frame, row) == DropDuplicatedKeepLast(frame)

\* Lines 108-110: new_row as a one-row frame, appended, duplicates dropped.
Merged(frame, row) == DropDuplicatedKeepLast(Concat(frame, <<row>>))

\* What the save block prints for what to_csv did.
SavePrints(w) == IF w = "ok" THEN {} ELSE {"History Save Error"}

\* The save block letting a failed write end the run.
AfterSave_Raises(w) == IF w = "ok" THEN "chart" ELSE "crashed"

\* Where the script goes after the save block.
AfterSave(w) == "chart"

\* Lines 106-113. to_csv writes the file, or raises before opening it (the file
\* stays as it was), or raises while writing (the file, truncated on opening,
\* is left unreadable); the except prints and the script goes on.
Save ==
    /\ pc = "save"
    /\ history_df' = Merged(history_df, new_row)
    /\ saves' = saves + 1
    /\ \E w \in {"ok", "fail_open", "fail_write"} :
          /\ written' = w
          /\ file' = CASE w = "ok" -> Written(history_df')
                       [] w = "fail_open" -> file
                       [] w = "fail_write" -> Unreadable
          /\ printed' = printed \cup SavePrints(w)
          /\ pc' = AfterSave(w)
    /\ UNCHANGED <<run, clock, file_at_load, timestamp, new_row, results_list, idx,
                   df, outcome, ratio_val, chart_data, reports>>

\* head(30) for tail(30).
RecentWindow_Head(frame) ==
    IF Len(frame) <= ChartWindow THEN frame ELSE SubSeq(frame, 1, ChartWindow)

\* history_df.tail(30).reset_index()
RecentWindow(frame) == TailN(frame, ChartWindow)

\* Lines 115-120.
Chart ==
    /\ pc = "chart"
    /\ chart_data' = RecentWindow(history_df)
    /\ pc' = "report"
    /\ UNCHANGED <<run, clock, file, file_at_load, history_df, timestamp, new_row, results_list,
                   idx, df, outcome, ratio_val, written, saves, printed, reports>>

\* Lines 122-244: both reports are written and the completion message printed.
Report ==
    /\ pc = "report"
    /\ reports' = TRUE
    /\ printed' = printed \cup {"completed"}
    /\ pc' = "done"
    /\ UNCHANGED <<run, clock, file, file_at_load, history_df, timestamp, new_row, results_list,
                   idx, df, outcome, ratio_val, written, saves, chart_data>>

\* Lines 242-243: opening a report file raises; nothing catches it.
ReportRaises ==
    /\ pc = "report"
    /\ pc' = "crashed"
    /\ UNCHANGED <<run, clock, file, file_at_load, history_df, timestamp, new_row, results_list,
                   idx, df, outcome, ratio_val, written, saves, chart_data, printed,
                   reports>>

\* The next scheduled invocation: a new process, which keeps only the file.
NextRun ==
    /\ pc \in {"done", "crashed"}
    /\ run < MaxRuns
    /\ run' = run + 1
    /\ pc' = "load"
    /\ file_at_load' = NoFile
    /\ history_df' = EmptyFrame
    /\ timestamp' = 0
    /\ new_row' = [Date |-> 0, cells |-> EmptyCells]
    /\ results_list' = <<>>
    /\ idx' = 1
    /\ df' = <<>>
    /\ outcome' = [n \in Names |-> "pending"]
    /\ ratio_val' = NaN
    /\ written' = "none"
    /\ saves' = 0
    /\ chart_data' = <<>>
    /\ printed' = {}
    /\ reports' = FALSE
    /\ UNCHANGED <<clock, file>>

Next ==
    \/ Load
    \/ FetchEmpty
    \/ FetchRaises
    \/ FetchOk
    \/ ComputeRatio
    \/ Save
    \/ Chart
    \/ Report
    \/ ReportRaises
    \/ NextRun

Spec == Init /\ [][Next]_vars

\* ------------------------------------------------------- the calculator runs
\* All price series of 1..MaxLen bars with closes in 0..MaxPrice.
ShortSeries == UNION {[1..n -> 0..MaxPrice] : n \in 1..MaxLen}

\* s after a flat stretch of k bars at its first close.
Lead(s, k) == [i \in 1..k |-> s[1]] \o s

\* The short series, and those of at most MaxTail bars after a flat stretch
\* long enough to fill the RSI window.
CalcSeries ==
    ShortSeries \cup {Lead(s, RsiPeriod) : s \in {x \in ShortSeries : Len(x) <= MaxTail}}

\* A run about to process its first ticker (no history file, minute 0), for
\* which the Provider is about to return the bars in df.
CalcInit ==
    /\ run = 1
    /\ clock = 0
    /\ file = NoFile
    /\ file_at_load = NoFile
    /\ pc = "fetch"
    /\ history_df = EmptyFrame
    /\ timestamp = 0
    /\ new_row = [Date |-> 0, cells |-> EmptyCells]
    /\ results_list = <<>>
    /\ idx = 1
    /\ df \in CalcSeries
    /\ outcome = [n \in Names |-> "pending"]
    /\ ratio_val = NaN
    /\ written = "none"
    /\ saves = 0
    /\ chart_data = <<>>
    /\ printed = {}
    /\ reports = FALSE

\* The pipeline of lines 50-95 on the first ticker, on those bars.
Calculate == idx = 1 /\ FetchBars({df})

CalcNext == Calculate

SpecCalc == CalcInit /\ [][CalcNext]_vars

\* ------------------------------------------------------------------- claims
\* The save block has run.
PostSave == pc \in {"chart", "report", "done", "crashed"}

\* The keys of a table, and its row with key d.
KeysOf(frame) == {frame[i].Date : i \in 1..Len(frame)}

RowOf(frame, d) == frame[CHOOSE i \in 1..Len(frame) : frame[i].Date = d]

\* No two rows of the frame have the same key.
UniqueKeys(frame) == Cardinality(KeysOf(frame)) = Len(frame)

Rows(frame) == {frame[i] : i \in 1..Len(frame)}

Has(n) == \E i \in 1..Len(results_list) : results_list[i].name = n

PriceOf(n) == results_list[CHOOSE i \in 1..Len(results_list) : results_list[i].name = n].price

Succeeded(n) == outcome[n] = "ok"

ResultNames == [i \in 1..Len(results_list) |-> results_list[i].name]

WriteFailed == written \in {"fail_open", "fail_write"}

\* C1: the table never holds two rows with one key, in memory or on disk;
\* after the save block its keys are the loaded keys plus this run's timestamp,
\* the row at the timestamp holds this run's values (the latest write) and a
\* successful write leaves exactly that table in the file.
C1_OneRowPerKey ==
    /\ UniqueKeys(history_df)
    /\ UniqueKeys(file.rows)
    /\ PostSave =>
          /\ KeysOf(history_df) = KeysOf(LoadHistory(file_at_load)) \cup {timestamp}
          /\ RowOf(history_df, timestamp) = Reindex(new_row, Columns(history_df))
          /\ (written = "ok" => file = Written(history_df))

\* A second run appended under the key of a row the first run had written,
\* with other values.
C1_Witness ==
    /\ PostSave
    /\ run = 2
    /\ written = "ok"
    /\ file_at_load.state = "ok"
    /\ Len(file_at_load.rows) = 1
    /\ timestamp \in KeysOf(file_at_load.rows)
    /\ RowOf(file_at_load.rows, timestamp).cells # RowOf(file.rows, timestamp).cells
    /\ Len(file.rows) = 1

\* C2: the results are those of exactly the tickers whose Provider call
\* succeeded, in watchlist order; new_row has a price column for a ticker iff
\* it has a result; whatever fails, the loop processes every ticker and the run
\* reaches the save block.
C2_FailureIsolation ==
    /\ ResultNames = SelectSeq(tickers, Succeeded)
    /\ \A n \in Names : (n \in DOMAIN new_row.cells) <=> Has(n)
    /\ (pc \in {"ratio", "save"} \/ PostSave) => \A n \in Names : outcome[n] # "pending"
    /\ pc \in {"done", "crashed"} => saves = 1

\* A run finished in which the first ticker's call raised and the second's
\* succeeded.
C2_Witness ==
    /\ pc = "done"
    /\ outcome["HYG"] = "raised"
    /\ outcome["LQD"] = "ok"
    /\ ResultNames = <<"LQD">>
    /\ saves = 1

\* C3: the ratio put into the snapshot is 0 when the HYG or the LQD result is
\* missing or the LQD price is 0, and otherwise the number that times the LQD
\* price is the HYG price.
C3_CompositeRatio ==
    (pc = "save" \/ PostSave) =>
       /\ new_row.cells["HYG/LQD"] = ratio_val
       /\ IF Has("HYG") /\ Has("LQD") /\ PriceOf("LQD") # Num(0)
          THEN IsFinite(ratio_val) /\ FMul(ratio_val, PriceOf("LQD")) = PriceOf("HYG")
          ELSE ratio_val = Num(0)
       /\ (outcome["HYG"] # "ok" \/ outcome["LQD"] # "ok") => ratio_val = Num(0)
       /\ PostSave => RowOf(history_df, timestamp).cells["HYG/LQD"] = ratio_val

\* Both succeeded, at prices 1 and 2, and the snapshot's ratio is 1/2.
C3_Witness ==
    /\ PostSave
    /\ Has("HYG") /\ Has("LQD")
    /\ PriceOf("HYG") = Num(1) /\ PriceOf("LQD") = Num(2)
    /\ RowOf(history_df, timestamp).cells["HYG/LQD"] = Rat(1, 2)

C5_Original == WriteFailed => pc # "done"

\* C5 as amended: a failed write is reported by the "History Save Error"
\* message and by nothing else; it does not stop the run, which goes on to the
\* chart data and the reports (the one uncaught failure is the report write),
\* and a run that finishes has written its reports and printed the completion
\* message whether or not the write failed.
C5_SaveErrorPrintedRunGoesOn ==
    /\ WriteFailed <=> "History Save Error" \in printed
    /\ pc = "crashed" => chart_data # <<>>
    /\ pc = "done" => reports /\ "completed" \in printed

\* A run finished with its reports and completion message after a write that
\* left the file unreadable.
C5_Witness ==
    /\ pc = "done"
    /\ written = "fail_write"
    /\ file = Unreadable
    /\ reports
    /\ printed = {"History Save Error", "completed"}

C7_ColdStart ==
    (pc # "load" /\ file_at_load.state # "ok") =>
       /\ pc \in {"fetch", "ratio", "save"} => history_df = EmptyFrame
       /\ PostSave => /\ history_df = <<new_row>>
                      /\ written = "ok" => file = Written(<<new_row>>)
       /\ pc = "crashed" => reports = FALSE /\ chart_data = <<new_row>>

\* A run that found an unreadable file, in which no ticker succeeded, finished
\* with a one-row file.
C7_Witness ==
    /\ pc = "done"
    /\ file_at_load = Unreadable
    /\ \A n \in Names : outcome[n] \in {"empty", "raised"}
    /\ written = "ok"
    /\ Len(file.rows) = 1

\* C8: the file and the table change only in the save block, which runs once,
\* when every ticker's outcome is known and the ratio is in new_row; a run
\* that ends has run it.
C8_SaveOnceAfterAll ==
    [][/\ (\/ file' # file
           \/ (saves' # saves /\ pc' # "load")
           \/ (history_df' # history_df /\ pc # "load" /\ pc' # "load"))
          => /\ pc = "save"
             /\ saves = 0 /\ saves' = 1
             /\ \A n \in Names : outcome[n] \in {"ok", "empty", "raised"}
             /\ "HYG/LQD" \in DOMAIN new_row.cells
             /\ new_row.cells["HYG/LQD"] = Ratio(results_list)
       /\ pc' \in {"done", "crashed"} => saves' = 1]_vars

\* A run finished after one save, with one ticker skipped and one succeeded.
C8_Witness ==
    /\ pc = "done"
    /\ saves = 1
    /\ written = "ok"
    /\ outcome["HYG"] = "empty"
    /\ outcome["LQD"] = "ok"

Chronological(frame) ==
    \A i \in 1..(Len(frame) - 1) : frame[i].Date < frame[i + 1].Date

C10_ConstantSeriesZeroZ ==
    \A i \in 1..Len(results_list) :
       (\A k \in 1..Len(df) : df[k] = df[1]) =>
           results_list[i].z = ZZero /\ results_list[i].risk = "Normal"

====
